---- MODULE Spec2Model ----
(***************************************************************************)
(* FloodWatch Guwahati: the alert engine (clustering, confidence scoring,  *)
(* severity, alert creation / in-place update), the client store that      *)
(* drives it (reports, alerts, notifications, timers) and the community    *)
(* vote handler of the alert feed; and three services beside them: the    *)
(* rate limit of the reverse geocoder, the report flow of the Telegram bot *)
(* and the polling loop of TelegramManager.                                *)
(*                                                                         *)
(* Units.  Time is counted in half seconds (the shortest delay in the      *)
(* code is the 500 ms wait of submitReport).  Coordinates are integers in  *)
(* 1e-5 degree.  Distances are squared metres: haversine at the latitude   *)
(* of Guwahati (26.16 N) is 1.112 m per 1e-5 degree of latitude and        *)
(* 0.998 m per 1e-5 degree of longitude, to within a metre at city scale;  *)
(* every point used below is at least 40 m away from each distance it is   *)
(* compared with.  Rainfall is counted in tenths of a millimetre.          *)
(*                                                                         *)
(* Left out, because no modelled operation reads them: report id, type,    *)
(* description and submitter; alert type, location, notifiedUsers and      *)
(* suggestedActions; users, blockedRoads, selectedLocation, isSubmitting   *)
(* and alertHistory of the store.                                          *)
(***************************************************************************)
EXTENDS Integers, Sequences, FiniteSets, TLC

VARIABLES now, reports, alerts, cityWideAlerts, weather, sensors,
          notifications, followUpPrompts, timers, interactions,
          nextId, confirmVoteAt, call, geocoder, bot, poller

vars == <<now, reports, alerts, cityWideAlerts, weather, sensors,
          notifications, followUpPrompts, timers, interactions,
          nextId, confirmVoteAt, call, geocoder, bot, poller>>

storeVars == <<now, reports, alerts, cityWideAlerts, weather, sensors,
               notifications, followUpPrompts, timers, interactions,
               nextId, confirmVoteAt>>

(* the services beside the store: reverse geocoding, the Telegram bot's
   handler and the Telegram polling loop *)
serviceVars == <<geocoder, bot, poller>>

None == [none |-> TRUE]

----------------------------------------------------------------------------
(* Durations, in half seconds *)

SUBMIT_DELAY == 1
NOTIFICATION_DELAY == 10
FOLLOW_UP_DELAY_short == 120 \div 2
FOLLOW_UP_DELAY == 120
ONE_MINUTE == 120
TEN_MINUTES == 1200
TWO_HOURS == 14400
EXTEND_DURATION == 3600

(* CONFIG of the alert engine *)
CLUSTER_RADIUS_METERS == 500
MIN_REPORTS_FOR_ALERT == 2
CONFIDENCE_THRESHOLD == 3
ALERT_DURATION_MINUTES_half == 60 \div 2
ALERT_DURATION_MINUTES == 60
ALERT_RADIUS_METERS == 800

(* WEIGHTS of the confidence score *)
TEXT_REPORT == 1
PHOTO_ATTACHED == 1
PHOTO_VERIFIED_FLOOD == 1
RAINFALL_FLAG == 1
MULTIPLE_REPORTS_lighter == 2 - 1
MULTIPLE_REPORTS == 2
RECENT_REPORT_BONUS == 1
SENSOR_CONFIRMED_heavier == 3 + 1
SENSOR_CONFIRMED == 3

(* half-width of the sensor box, 0.005 degree *)
SENSOR_BOX == 500
(* "more than 2 km away" of findNearestArea *)
NEAR_LIMIT_METERS == 2000

----------------------------------------------------------------------------
(* Geo utilities *)

Coord(lat, lng) == [lat |-> lat, lng |-> lng]

Abs(x) == IF x < 0 THEN -x ELSE x

GUWAHATI_AREAS ==
  << [name |-> "GS Road",                  loc |-> Coord(2614450, 9173620)],
     [name |-> "Zoo Road",                 loc |-> Coord(2616380, 9176740)],
     [name |-> "Panbazar",                 loc |-> Coord(2618560, 9174510)],
     [name |-> "Fancy Bazar",              loc |-> Coord(2618720, 9173840)],
     [name |-> "Paltan Bazar",             loc |-> Coord(2618030, 9175380)],
     [name |-> "Chandmari",                loc |-> Coord(2616480, 9177410)],
     [name |-> "Beltola",                  loc |-> Coord(2612980, 9178690)],
     [name |-> "Basistha",                 loc |-> Coord(2612080, 9180240)],
     [name |-> "Dispur",                   loc |-> Coord(2614020, 9178800)],
     [name |-> "Guwahati Railway Station", loc |-> Coord(2617910, 9175520)],
     [name |-> "Khanapara",                loc |-> Coord(2613230, 9181980)],
     [name |-> "Maligaon",                 loc |-> Coord(2615560, 9169060)],
     [name |-> "Bharalumukh",              loc |-> Coord(2617230, 9173290)],
     [name |-> "Uzanbazar",                loc |-> Coord(2619020, 9174670)],
     [name |-> "Lachit Nagar",             loc |-> Coord(2615850, 9175520)] >>

(* squared distance in metres between two coordinates *)
haversineDistance(coord1, coord2) ==
  LET dy == (Abs(coord2.lat - coord1.lat) * 1112) \div 1000
      dx == (Abs(coord2.lng - coord1.lng) * 998) \div 1000
  IN  dx * dx + dy * dy

isWithinRadius(center, point, radiusMeters) ==
  haversineDistance(center, point) <= radiusMeters * radiusMeters

(* the first area, in table order, at the minimal distance; "Near <area>"
   when that distance is above 2 km *)
findNearestArea(location) ==
  LET d(i) == haversineDistance(location, GUWAHATI_AREAS[i].loc)
      idx  == CHOOSE i \in 1..Len(GUWAHATI_AREAS) :
                \A j \in 1..Len(GUWAHATI_AREAS) :
                  d(i) < d(j) \/ (d(i) = d(j) /\ i <= j)
  IN  IF d(idx) > NEAR_LIMIT_METERS * NEAR_LIMIT_METERS
        THEN <<"Near", GUWAHATI_AREAS[idx].name>>
        ELSE <<GUWAHATI_AREAS[idx].name>>

RECURSIVE SumLat(_), SumLng(_)
SumLat(coords) ==
  IF coords = <<>> THEN 0 ELSE Head(coords).lat + SumLat(Tail(coords))
SumLng(coords) ==
  IF coords = <<>> THEN 0 ELSE Head(coords).lng + SumLng(Tail(coords))

calculateCentroid(coords) ==
  IF Len(coords) = 0 THEN Coord(0, 0)
  ELSE Coord(SumLat(coords) \div Len(coords), SumLng(coords) \div Len(coords))

Locations(rs) == [i \in 1..Len(rs) |-> rs[i].location]

(* groupFrom whose inner loop does not skip the items already assigned *)
RECURSIVE groupFrom_reabsorbs(_, _, _, _)
groupFrom_reabsorbs(items, radiusMeters, i, assigned) ==
  IF i > Len(items) THEN <<>>
  ELSE IF i \in assigned
    THEN groupFrom_reabsorbs(items, radiusMeters, i + 1, assigned)
    ELSE LET members == {i} \cup
                 {j \in (i + 1)..Len(items) :
                    isWithinRadius(items[i].location, items[j].location,
                                   radiusMeters)}
             group == SelectSeq([k \in 1..Len(items) |->
                                   [idx |-> k, item |-> items[k]]],
                                LAMBDA e : e.idx \in members)
         IN  <<[k \in 1..Len(group) |-> group[k].item]>>
               \o groupFrom_reabsorbs(items, radiusMeters, i + 1,
                                      assigned \cup members)

(* greedy seed-based grouping: the groups as sequences of items, in order
   of their seeds *)
RECURSIVE groupFrom(_, _, _, _)
groupFrom(items, radiusMeters, i, assigned) ==
  IF i > Len(items) THEN <<>>
  ELSE IF i \in assigned
    THEN groupFrom(items, radiusMeters, i + 1, assigned)
    ELSE LET members == {i} \cup
                 {j \in (i + 1)..Len(items) :
                    /\ j \notin assigned
                    /\ isWithinRadius(items[i].location, items[j].location,
                                      radiusMeters)}
             group == SelectSeq([k \in 1..Len(items) |->
                                   [idx |-> k, item |-> items[k]]],
                                LAMBDA e : e.idx \in members)
         IN  <<[k \in 1..Len(group) |-> group[k].item]>>
               \o groupFrom(items, radiusMeters, i + 1, assigned \cup members)

groupByProximity(items, radiusMeters) ==
  groupFrom(items, radiusMeters, 1, {})

----------------------------------------------------------------------------
(* Alert engine: scoring and severity *)

CountSeq(s, P(_)) == Cardinality({i \in 1..Len(s) : P(s[i])})

(* a report is a record [location, photoUrl, photoVerified, timestamp,
   isActive]; photoUrl is TRUE when the report carries a photo *)
calculateConfidence(rs, w, ss, t) ==
  LET tenMinutesAgo == t - TEN_MINUTES
      textReports == TEXT_REPORT * Len(rs)
      photosAttached ==
        PHOTO_ATTACHED * CountSeq(rs, LAMBDA r : r.photoUrl)
      photosVerified ==
        PHOTO_VERIFIED_FLOOD *
          CountSeq(rs, LAMBDA r : r.photoUrl /\ r.photoVerified)
      recencyBonus ==
        RECENT_REPORT_BONUS *
          CountSeq(rs, LAMBDA r : r.timestamp > tenMinutesAgo)
      clusterCenter == calculateCentroid(Locations(rs))
      nearbyCriticalSensor ==
        \E i \in 1..Len(ss) :
          /\ ss[i].status = "critical"
          /\ Abs(ss[i].location.lat - clusterCenter.lat) < SENSOR_BOX
          /\ Abs(ss[i].location.lng - clusterCenter.lng) < SENSOR_BOX
      sensorBonus == IF nearbyCriticalSensor THEN SENSOR_CONFIRMED ELSE 0
      rainfallBonus == IF w.isRaining THEN RAINFALL_FLAG ELSE 0
      multipleReportsBonus == IF Len(rs) >= 2 THEN MULTIPLE_REPORTS ELSE 0
  IN  [totalScore |-> textReports + photosAttached + photosVerified
                        + recencyBonus + sensorBonus + rainfallBonus
                        + multipleReportsBonus,
       textReports |-> textReports,
       photosAttached |-> photosAttached,
       photosVerified |-> photosVerified,
       rainfallBonus |-> rainfallBonus,
       multipleReportsBonus |-> multipleReportsBonus,
       recencyBonus |-> recencyBonus,
       sensorBonus |-> sensorBonus]

determineSeverity_strict(confidence, reportCount) ==
  IF confidence > 6 \/ reportCount > 4 THEN "critical"
  ELSE IF confidence > 4 \/ reportCount > 3 THEN "high"
  ELSE "medium"

determineSeverity(confidence, reportCount) ==
  IF confidence >= 6 \/ reportCount >= 4 THEN "critical"
  ELSE IF confidence >= 4 \/ reportCount >= 3 THEN "high"
  ELSE "medium"

----------------------------------------------------------------------------
(* Alert engine: the processing pass *)

(* {...a, k: v, ...}, and assignment to fields of an object *)
Merge(a, fields) ==
  [k \in DOMAIN a \cup DOMAIN fields |->
     IF k \in DOMAIN fields THEN fields[k] ELSE a[k]]

(* index of the first element satisfying P, 0 when there is none
   (Array.prototype.find) *)
FindIndex(s, P(_)) ==
  IF \E i \in 1..Len(s) : P(s[i])
    THEN CHOOSE i \in 1..Len(s) : P(s[i]) /\ \A j \in 1..(i - 1) : ~P(s[j])
    ELSE 0

initialRoadState(severity) ==
  IF severity = "critical" \/ severity = "high" THEN "flooded"
  ELSE "monitoring"

newAlert(id, areaName, confidence, cluster, t) ==
  LET severity == determineSeverity(confidence.totalScore, Len(cluster))
  IN  [id |-> id,
       severity |-> severity,
       areaName |-> areaName,
       radius |-> ALERT_RADIUS_METERS,
       confidenceScore |-> confidence.totalScore,
       reportCount |-> Len(cluster),
       triggeredAt |-> t,
       expiresAt |-> t + ALERT_DURATION_MINUTES * ONE_MINUTE,
       isActive |-> TRUE,
       roadState |-> initialRoadState(severity),
       resolvedCount |-> 0,
       confirmedCount |-> 0]

(* does the cluster pass the size and confidence conditions of the loop *)
passesGate(cluster, w, ss, t) ==
  /\ Len(cluster) >= MIN_REPORTS_FOR_ALERT
  /\ calculateConfidence(cluster, w, ss, t).totalScore >= CONFIDENCE_THRESHOLD

clusterArea(cluster) == findNearestArea(calculateCentroid(Locations(cluster)))

(* one iteration of the loop over the clusters; acc holds existingAlerts
   (whose objects the loop mutates), newAlerts and the next fresh id *)
processCluster_no_lookup(acc, cluster, w, ss, t) ==
  IF ~passesGate(cluster, w, ss, t) THEN acc
  ELSE [acc EXCEPT
          !.newAlerts = Append(@, newAlert(<<"uuid", acc.nextId>>,
                                  clusterArea(cluster),
                                  calculateConfidence(cluster, w, ss, t),
                                  cluster, t)),
          !.nextId = @ + 1]

processCluster(acc, cluster, w, ss, t) ==
  IF ~passesGate(cluster, w, ss, t) THEN acc
  ELSE
    LET confidence == calculateConfidence(cluster, w, ss, t)
        areaName == clusterArea(cluster)
        e == FindIndex(acc.existingAlerts,
                       LAMBDA a : a.areaName = areaName /\ a.isActive)
    IN  IF e # 0
          THEN [acc EXCEPT !.existingAlerts[e] =
                  Merge(@, [confidenceScore |-> confidence.totalScore,
                            reportCount |-> Len(cluster),
                            severity |-> determineSeverity(
                                confidence.totalScore, Len(cluster))])]
          ELSE [acc EXCEPT
                  !.newAlerts = Append(@, newAlert(<<"uuid", acc.nextId>>,
                                          areaName, confidence, cluster, t)),
                  !.nextId = @ + 1]

RECURSIVE processClusters(_, _, _, _, _)
processClusters(acc, clusters, w, ss, t) ==
  IF clusters = <<>> THEN acc
  ELSE processClusters(processCluster(acc, Head(clusters), w, ss, t),
                       Tail(clusters), w, ss, t)

activeReports_no_age_limit(rs, t) ==
  SelectSeq(rs, LAMBDA r : r.isActive)

(* the reports admitted to clustering: active and newer than two hours *)
activeReports(rs, t) ==
  SelectSeq(rs, LAMBDA r : r.isActive /\ r.timestamp > t - TWO_HOURS)

(* result: newAlerts is the returned array; existingAlerts is the array
   that was passed in, after the in-place updates *)
processReportsForAlerts(rs, w, existingAlerts, ss, t, id) ==
  LET acc0 == [existingAlerts |-> existingAlerts, newAlerts |-> <<>>,
               nextId |-> id]
  IN  IF Len(activeReports(rs, t)) = 0 THEN acc0
      ELSE processClusters(acc0,
             groupByProximity(activeReports(rs, t), CLUSTER_RADIUS_METERS),
             w, ss, t)

(* shouldSendFollowUp without the test of the alert's age *)
shouldSendFollowUp_no_age_check(alert, lastPromptTime, t) ==
  LET oneMinuteAgo == t - ONE_MINUTE
  IN  IF lastPromptTime = <<>> THEN TRUE
      ELSE lastPromptTime[1] < oneMinuteAgo

(* lastPromptTime is << >> when no prompt was sent, <<time>> otherwise *)
shouldSendFollowUp(alert, lastPromptTime, t) ==
  LET oneMinuteAgo == t - ONE_MINUTE
      alertAge == t - alert.triggeredAt
  IN  IF alertAge < ONE_MINUTE THEN FALSE
      ELSE IF lastPromptTime = <<>> THEN TRUE
      ELSE lastPromptTime[1] < oneMinuteAgo

----------------------------------------------------------------------------
(* Bounds of the model *)

MaxReports == 4
MaxIds == 3
MaxHours == 2
MaxMock == 1
MaxNotifications == 3
MaxConfidence == 8
MaxCount == 5
MaxCluster == 2
MaxEngineReports == 4
MaxTally == 2
MaxGroupItems == 3
MaxGeoCalls == 3
MaxGeoClock == 30
MaxFlows == 2
MaxFinalizing == 2
MaxLoops == 2
MaxUpdates == 2

----------------------------------------------------------------------------
(* The store *)

(* Map.set, and object spread with a computed key *)
MapSet(m, k, v) == [x \in DOMAIN m \cup {k} |-> IF x = k THEN v ELSE m[x]]

(* setTimeout: a callback runs after the callbacks that are due earlier and
   after those with the same due time that were scheduled before it *)
InsertTimer(ts, tm) ==
  LET k == Cardinality({i \in 1..Len(ts) : ts[i].due <= tm.due})
  IN  SubSeq(ts, 1, k) \o <<tm>> \o SubSeq(ts, k + 1, Len(ts))

Timer(due, kind, arg) == [due |-> due, kind |-> kind, arg |-> arg]

DEFAULT_SENSORS ==
  << [id |-> "sensor-1", location |-> Coord(2616380, 9176740),
      status |-> "normal"],
     [id |-> "sensor-2", location |-> Coord(2614450, 9173620),
      status |-> "normal"],
     [id |-> "sensor-3", location |-> Coord(2618720, 9173840),
      status |-> "normal"] >>

DEFAULT_WEATHER == [isRaining |-> TRUE, rainfallMm |-> 125]

CITY_WIDE_MOCK_LOCATIONS ==
  << [name |-> "Anil Nagar", severity |-> "critical"],
     [name |-> "Nabin Nagar", severity |-> "critical"],
     [name |-> "Hatigaon", severity |-> "medium"],
     [name |-> "Rukminigaon", severity |-> "high"] >>

(* the mock alerts of seedDemoData (the first MaxMock of them); they carry
   no roadState, resolvedCount or confirmedCount, and their confidenceScore
   of 0.9 is left out *)
mockAlerts(t) ==
  [k \in 1..MaxMock |->
     [id |-> <<"mock-city-alert", k - 1>>,
      severity |-> CITY_WIDE_MOCK_LOCATIONS[k].severity,
      areaName |-> <<CITY_WIDE_MOCK_LOCATIONS[k].name>>,
      radius |-> 400,
      reportCount |-> 15 + (k - 1) * 5,
      triggeredAt |-> t - 60 * ONE_MINUTE * k,
      expiresAt |-> t + 60 * ONE_MINUTE * 4,
      isActive |-> TRUE]]

Ids(as) == {as[i].id : i \in 1..Len(as)}

(* the part of the store that the nested calls of a handler change *)
Store == [alerts |-> alerts, notifications |-> notifications,
          timers |-> timers, followUpPrompts |-> followUpPrompts,
          nextId |-> nextId]

SetStore(st) ==
  /\ alerts' = st.alerts
  /\ notifications' = st.notifications
  /\ timers' = st.timers
  /\ followUpPrompts' = st.followUpPrompts
  /\ nextId' = st.nextId

addNotification(st, message, t) ==
  [st EXCEPT !.notifications = Append(@, message),
             !.timers = InsertTimer(@, Timer(t + NOTIFICATION_DELAY,
                                             "clearNotification", None))]

(* the loop of processAlerts over the generated alerts *)
RECURSIVE notifyNew(_, _, _, _)
notifyNew(st, generated, oldAlertIds, t) ==
  IF generated = <<>> THEN st
  ELSE LET alert == Head(generated)
           st1 == IF alert.id \notin oldAlertIds
                    THEN [addNotification(st, "alert", t) EXCEPT
                            !.timers = InsertTimer(@,
                               Timer(t + FOLLOW_UP_DELAY, "sendFollowUp",
                                     alert.id))]
                    ELSE st
       IN  notifyNew(st1, Tail(generated), oldAlertIds, t)

(* processAlerts that keeps the alerts whose expiresAt has passed, as
   inactive *)
processAlerts_expires(st, rs, w, ss, cw, t) ==
  LET res == processReportsForAlerts(rs, w, st.alerts, ss, t, st.nextId)
      generatedAlerts == res.newAlerts
      activeCityWide ==
        SelectSeq(cw, LAMBDA a : a.id \notin Ids(generatedAlerts))
      expired ==
        SelectSeq(st.alerts,
                  LAMBDA a : a.expiresAt <= t
                               /\ a.id \notin Ids(generatedAlerts)
                               /\ a.id \notin Ids(activeCityWide))
      allActiveAlerts ==
        generatedAlerts \o activeCityWide
          \o [k \in 1..Len(expired) |->
                Merge(expired[k], [isActive |-> FALSE])]
  IN  notifyNew([st EXCEPT !.alerts = allActiveAlerts,
                           !.nextId = res.nextId],
                generatedAlerts, Ids(st.alerts), t)

processAlerts(st, rs, w, ss, cw, t) ==
  LET res == processReportsForAlerts(rs, w, st.alerts, ss, t, st.nextId)
      generatedAlerts == res.newAlerts
      activeCityWide ==
        SelectSeq(cw, LAMBDA a : a.id \notin Ids(generatedAlerts))
      allActiveAlerts == generatedAlerts \o activeCityWide
  IN  notifyNew([st EXCEPT !.alerts = allActiveAlerts,
                           !.nextId = res.nextId],
                generatedAlerts, Ids(st.alerts), t)

(* sendFollowUp that does not test isActive *)
sendFollowUp_ignores_resolution(st, alertId, t) ==
  LET i == FindIndex(st.alerts, LAMBDA a : a.id = alertId)
  IN  IF i = 0 THEN st
      ELSE [addNotification(st, "followUp", t) EXCEPT
              !.followUpPrompts = MapSet(@, alertId, t)]

sendFollowUp(st, alertId, t) ==
  LET i == FindIndex(st.alerts, LAMBDA a : a.id = alertId)
  IN  IF i = 0 \/ ~st.alerts[i].isActive THEN st
      ELSE [addNotification(st, "followUp", t) EXCEPT
              !.followUpPrompts = MapSet(@, alertId, t)]

(* respondToFollowUp that resolves only an alert with two resolved votes *)
respondToFollowUp_by_threshold(st, alertId, stillOngoing, t) ==
  addNotification(
    [st EXCEPT !.alerts =
       [i \in 1..Len(st.alerts) |->
          IF st.alerts[i].id = alertId
            THEN IF ~stillOngoing
                   THEN IF /\ "resolvedCount" \in DOMAIN st.alerts[i]
                           /\ st.alerts[i].resolvedCount >= 2
                          THEN Merge(st.alerts[i], [isActive |-> FALSE])
                          ELSE st.alerts[i]
                   ELSE Merge(st.alerts[i],
                              [expiresAt |-> t + EXTEND_DURATION])
            ELSE st.alerts[i]]],
    IF stillOngoing THEN "extended" ELSE "resolved", t)

respondToFollowUp(st, alertId, stillOngoing, t) ==
  addNotification(
    [st EXCEPT !.alerts =
       [i \in 1..Len(st.alerts) |->
          IF st.alerts[i].id = alertId
            THEN IF ~stillOngoing
                   THEN Merge(st.alerts[i], [isActive |-> FALSE])
                   ELSE Merge(st.alerts[i],
                              [expiresAt |-> t + EXTEND_DURATION])
            ELSE st.alerts[i]]],
    IF stillOngoing THEN "extended" ELSE "resolved", t)

----------------------------------------------------------------------------
(* The vote handler of the alert feed *)

(* x.f || dflt, for a field that some alerts do not carry *)
FieldOr(a, f, dflt) == IF f \in DOMAIN a THEN a[f] ELSE dflt

(* getInteraction that loses the vote the user has cast *)
getInteraction_forgets_vote(ia, alert) ==
  IF alert.id \in DOMAIN ia THEN [ia[alert.id] EXCEPT !.userVote = "null"]
  ELSE [userVote |-> "null",
        localResolved |-> FieldOr(alert, "resolvedCount", 0),
        localConfirmed |-> FieldOr(alert, "confirmedCount", 0)]

getInteraction(ia, alert) ==
  IF alert.id \in DOMAIN ia THEN ia[alert.id]
  ELSE [userVote |-> "null",
        localResolved |-> FieldOr(alert, "resolvedCount", 0),
        localConfirmed |-> FieldOr(alert, "confirmedCount", 0)]

(* differenceInMinutes: full minutes, truncated *)
differenceInMinutes(later, earlier) == (later - earlier) \div ONE_MINUTE

(* voteOutcome with the tests of "remove previous vote" inverted *)
voteOutcome_inverted_removal(ia, alert, type, w, t) ==
  LET current == getInteraction(ia, alert)
      newResolved == current.localResolved
                       - (IF current.userVote # "resolved" THEN 1 ELSE 0)
                       + (IF type = "resolved" THEN 1 ELSE 0)
      newConfirmed == current.localConfirmed
                       - (IF current.userVote # "confirm" THEN 1 ELSE 0)
                       + (IF type = "confirm" THEN 1 ELSE 0)
  IN  [newResolved |-> newResolved,
       newConfirmed |-> newConfirmed,
       shouldMonitor |-> FALSE,
       shouldResolve |-> newResolved >= 2 /\ w.rainfallMm < 20]

(* the values handleVote computes for a vote that is not a repeat *)
voteOutcome(ia, alert, type, w, t) ==
  LET current == getInteraction(ia, alert)
      newResolved == current.localResolved
                       - (IF current.userVote = "resolved" THEN 1 ELSE 0)
                       + (IF type = "resolved" THEN 1 ELSE 0)
      newConfirmed == current.localConfirmed
                       - (IF current.userVote = "confirm" THEN 1 ELSE 0)
                       + (IF type = "confirm" THEN 1 ELSE 0)
      minutesSinceLastConfirm ==
        IF "lastConfirmedAt" \in DOMAIN alert
          THEN differenceInMinutes(t, alert.lastConfirmedAt)
          ELSE 999
      isLowRainfall == w.rainfallMm < 50
  IN  [newResolved |-> newResolved,
       newConfirmed |-> newConfirmed,
       shouldMonitor |-> newResolved >= 1 /\ minutesSinceLastConfirm > 15
                           /\ isLowRainfall,
       shouldResolve |-> newResolved >= 2 /\ w.rainfallMm < 20]

----------------------------------------------------------------------------
(* Reverse geocoding (Nominatim).  Its clock counts tenths of a second. *)

MIN_REQUEST_INTERVAL == 11

(* Date.now() when the page is loaded: far from the initial
   lastRequestTime of 0 *)
PageLoad == 100

(* waiting: the wake-up times of the calls that sleep in waitForRateLimit,
   in the order of their timers; requests: the times of the fetches *)
GeocoderInit ==
  [clock |-> PageLoad, lastRequestTime |-> 0, waiting |-> <<>>,
   requests |-> <<>>]

(* reverseGeocode for coordinates that are not in the cache, up to the
   first await that suspends it *)
reverseGeocode(g) ==
  LET timeSinceLastRequest == g.clock - g.lastRequestTime
  IN  IF timeSinceLastRequest < MIN_REQUEST_INTERVAL
        THEN [g EXCEPT !.waiting = InsertTimer(@,
                Timer(g.clock + (MIN_REQUEST_INTERVAL - timeSinceLastRequest),
                      "waitForRateLimit", None))]
        ELSE [g EXCEPT !.lastRequestTime = g.clock,
                       !.requests = Append(@, g.clock)]

(* the rest of waitForRateLimit after its sleep, and the fetch *)
waitForRateLimitResume(g) ==
  [g EXCEPT !.waiting = Tail(@),
            !.lastRequestTime = g.clock,
            !.requests = Append(@, g.clock)]

----------------------------------------------------------------------------
(* Telegram *)

(* The bot's handler for one user.  session: the user's entry of the
   sessions map; finalizing: the handlers that are suspended in
   handlePhotoState, each at "insert" (before the row is inserted) or at
   "send" (before the confirmation is sent); rows: the rows of the reports
   table.  History: flows counts the reports that reached the photo step,
   cancelled those of them that were cancelled there. *)
IdleSession == [state |-> "IDLE", type |-> "none", location |-> FALSE]

BotInit ==
  [session |-> IdleSession, finalizing |-> <<>>, rows |-> 0,
   flows |-> 0, cancelled |-> 0]

FloodTypeTexts == {"Flood", "Waterlogging", "Drain Overflow"}

(* handleTelegramUpdate up to the first await that suspends it; the
   messages it sends are left out *)
handleTelegramUpdate(b, update) ==
  IF update = "Cancel"
    THEN [b EXCEPT !.session = IdleSession,
                   !.cancelled = IF b.session.state = "AWAITING_PHOTO"
                                      /\ b.finalizing = <<>>
                                   THEN @ + 1 ELSE @]
  ELSE IF b.session.state = "IDLE"
    THEN IF update = "Report Flood"
           THEN [b EXCEPT !.session.state = "AWAITING_FLOOD_TYPE"]
           ELSE b
  ELSE IF b.session.state = "AWAITING_FLOOD_TYPE"
    THEN IF update \in FloodTypeTexts
           THEN [b EXCEPT !.session.type = update,
                          !.session.state = "AWAITING_LOCATION"]
           ELSE b
  ELSE IF b.session.state = "AWAITING_LOCATION"
    THEN IF update = "location"
           THEN [b EXCEPT !.session.location = TRUE,
                          !.session.state = "AWAITING_PHOTO",
                          !.flows = @ + 1]
           ELSE b
  ELSE (* AWAITING_PHOTO *)
       IF update \in {"Skip", "photo"}
         THEN [b EXCEPT !.finalizing = Append(@, "insert")]
         ELSE b

(* the insert of handlePhotoState is carried out *)
handlePhotoStateInsert(b, h) ==
  [b EXCEPT !.rows = @ + 1, !.finalizing[h] = "send"]

(* the confirmation is sent and the session reset *)
handlePhotoStateFinish(b, h) ==
  [b EXCEPT !.session = IdleSession,
            !.finalizing = SubSeq(@, 1, h - 1) \o SubSeq(@, h + 1, Len(@))]

(* The polling of TelegramManager.  isPolling: the ref; mounted: the
   effect has run and its cleanup has not; loops: the calls of startPolling
   that entered the loop, each with its position (in getUpdates, handling
   the batch it received, waiting before the test of the loop, stopped),
   its offset and the rest of its batch; updates: the server has the
   updates 1..updates, of which those up to confirmed are forgotten.
   History of a loop: completed, the ids whose handler completed;
   lastAttempt and lastThrew, the id it handled last and whether that
   handler threw; retried, a handler completed on an id it had thrown on. *)
PollerInit ==
  [isPolling |-> FALSE, mounted |-> FALSE, loops |-> <<>>, updates |-> 0,
   confirmed |-> 0]

NewLoop ==
  [pc |-> "getUpdates", offset |-> 0, batch |-> <<>>, completed |-> <<>>,
   lastAttempt |-> 0, lastThrew |-> FALSE, retried |-> FALSE]

(* startPolling up to its first await *)
startPolling(p) ==
  IF p.isPolling THEN p
  ELSE [p EXCEPT !.isPolling = TRUE, !.loops = Append(@, NewLoop)]

(* getUpdates(offset) answers with the updates from the offset on, or
   from the first unconfirmed one, and the server forgets the updates
   below the offset *)
getUpdates(p, l) ==
  LET Max(a, b) == IF a >= b THEN a ELSE b
      offset == p.loops[l].offset
      first == Max(offset, p.confirmed + 1)
      updates == [k \in 1..(p.updates - first + 1) |-> first + k - 1]
  IN  [p EXCEPT !.confirmed = Max(@, offset - 1),
                !.loops[l].batch = updates,
                !.loops[l].pc = IF updates = <<>> THEN "waiting"
                                ELSE "handling"]

(* one round of "for (const update of updates)" with the offset moved
   before the handler is awaited *)
handleUpdate_offset_first(loop, completes) ==
  LET id == Head(loop.batch)
  IN  IF completes
        THEN [loop EXCEPT !.offset = id + 1,
                          !.completed = Append(@, id),
                          !.batch = Tail(@),
                          !.pc = IF Tail(loop.batch) = <<>> THEN "waiting"
                                 ELSE "handling",
                          !.retried = @ \/ (loop.lastThrew
                                              /\ loop.lastAttempt = id),
                          !.lastAttempt = id, !.lastThrew = FALSE]
        ELSE [loop EXCEPT !.offset = id + 1,
                          !.batch = <<>>, !.pc = "waiting",
                          !.lastAttempt = id, !.lastThrew = TRUE]

(* one round of "for (const update of updates)": the handler completes
   and the offset moves, or it throws and the catch block ends the batch *)
handleUpdate(loop, completes) ==
  LET id == Head(loop.batch)
  IN  IF completes
        THEN [loop EXCEPT !.offset = id + 1,
                          !.completed = Append(@, id),
                          !.batch = Tail(@),
                          !.pc = IF Tail(loop.batch) = <<>> THEN "waiting"
                                 ELSE "handling",
                          !.retried = @ \/ (loop.lastThrew
                                              /\ loop.lastAttempt = id),
                          !.lastAttempt = id, !.lastThrew = FALSE]
        ELSE [loop EXCEPT !.batch = <<>>, !.pc = "waiting",
                          !.lastAttempt = id, !.lastThrew = TRUE]


----------------------------------------------------------------------------
(* Inputs *)

(* two points 350 m west and east of Maligaon, 700 m apart *)
MaligaonWest == Coord(2615560, 9168710)
MaligaonEast == Coord(2615560, 9169410)

FormLocations == {MaligaonWest, MaligaonEast}
NoPhoto == [photoUrl |-> FALSE, photoVerified |-> FALSE]
PhotoKinds == {[photoUrl |-> u, photoVerified |-> v] : u, v \in BOOLEAN}
SimulatedSensors == {"sensor-1"}
RainfallInputs == {10, 30, 125}
VoteTypes == {"confirm", "resolved"}

KnownIds == {<<"uuid", n>> : n \in 0..(nextId - 1)}
              \cup {<<"mock-city-alert", k - 1>> : k \in 1..MaxMock}

PendingSubmits == Cardinality({i \in 1..Len(timers) :
                                 timers[i].kind = "submitReport"})

----------------------------------------------------------------------------
(* Actions *)

StoreInit ==
  /\ now = 0
  /\ reports = <<>>
  /\ alerts = <<>>
  /\ cityWideAlerts = <<>>
  /\ weather = DEFAULT_WEATHER
  /\ sensors = DEFAULT_SENSORS
  /\ notifications = <<>>
  /\ followUpPrompts = <<>>
  /\ timers = <<>>
  /\ interactions = <<>>
  /\ nextId = 0
  /\ confirmVoteAt = <<>>
  /\ geocoder = GeocoderInit
  /\ bot = BotInit
  /\ poller = PollerInit

Init == StoreInit /\ call = None

(* submitReport up to its await: the report is built, with the time of the
   call, and the rest of the handler runs 500 ms later *)
SubmitReport(location, photo) ==
  /\ Len(reports) + PendingSubmits < MaxReports
  /\ timers' = InsertTimer(timers,
       Timer(now + SUBMIT_DELAY, "submitReport",
             [location |-> location, photoUrl |-> photo.photoUrl,
              photoVerified |-> photo.photoVerified, timestamp |-> now,
              isActive |-> TRUE]))
  /\ UNCHANGED <<now, reports, alerts, cityWideAlerts, weather, sensors,
                 notifications, followUpPrompts, interactions, nextId,
                 confirmVoteAt, call, serviceVars>>

(* the rest of submitReport: append the report, processAlerts, notify *)
SubmitReportResume ==
  /\ timers # <<>>
  /\ Head(timers).due <= now
  /\ Head(timers).kind = "submitReport"
  /\ LET rs == Append(reports, Head(timers).arg)
         st == processAlerts([Store EXCEPT !.timers = Tail(timers)],
                             rs, weather, sensors, cityWideAlerts, now)
     IN  /\ st.nextId <= MaxIds
         /\ reports' = rs
         /\ SetStore(addNotification(st, "report", now))
  /\ UNCHANGED <<now, cityWideAlerts, weather, sensors, interactions,
                 confirmVoteAt, call, serviceVars>>

ProcessAlerts ==
  /\ LET st == processAlerts(Store, reports, weather, sensors,
                             cityWideAlerts, now)
     IN  /\ st.nextId <= MaxIds
         /\ SetStore(st)
  /\ UNCHANGED <<now, reports, cityWideAlerts, weather, sensors,
                 interactions, confirmVoteAt, call, serviceVars>>

(* the auto-clear callback of addNotification *)
ClearNotificationTimer ==
  /\ timers # <<>>
  /\ Head(timers).due <= now
  /\ Head(timers).kind = "clearNotification"
  /\ timers' = Tail(timers)
  /\ notifications' = SubSeq(notifications, 2, Len(notifications))
  /\ UNCHANGED <<now, reports, alerts, cityWideAlerts, weather, sensors,
                 followUpPrompts, interactions, nextId, confirmVoteAt, call, serviceVars>>

(* the follow-up callback scheduled by processAlerts *)
SendFollowUpTimer ==
  /\ timers # <<>>
  /\ Head(timers).due <= now
  /\ Head(timers).kind = "sendFollowUp"
  /\ SetStore(sendFollowUp([Store EXCEPT !.timers = Tail(timers)],
                           Head(timers).arg, now))
  /\ UNCHANGED <<now, reports, cityWideAlerts, weather, sensors,
                 interactions, confirmVoteAt, call, serviceVars>>

(* the callback of handleVote: resolveAlert is not an action of the store,
   the call throws and changes nothing *)
ResolveAlertTimer ==
  /\ timers # <<>>
  /\ Head(timers).due <= now
  /\ Head(timers).kind = "resolveAlert"
  /\ timers' = Tail(timers)
  /\ UNCHANGED <<now, reports, alerts, cityWideAlerts, weather, sensors,
                 notifications, followUpPrompts, interactions, nextId,
                 confirmVoteAt, call, serviceVars>>

RespondToFollowUp(alertId, stillOngoing) ==
  /\ Len(notifications) < MaxNotifications
  /\ SetStore(respondToFollowUp(Store, alertId, stillOngoing, now))
  /\ UNCHANGED <<now, reports, cityWideAlerts, weather, sensors,
                 interactions, confirmVoteAt, call, serviceVars>>

UpdateWeather(isRaining, rainfallMm) ==
  /\ weather' = [isRaining |-> isRaining, rainfallMm |-> rainfallMm]
  /\ UNCHANGED <<now, reports, alerts, cityWideAlerts, sensors,
                 notifications, followUpPrompts, timers, interactions,
                 nextId, confirmVoteAt, call, serviceVars>>

SeedDemoData ==
  /\ cityWideAlerts = <<>>
  /\ reports' = <<>>
  /\ alerts' = mockAlerts(now)
  /\ cityWideAlerts' = mockAlerts(now)
  /\ UNCHANGED <<now, weather, sensors, notifications, followUpPrompts,
                 timers, interactions, nextId, confirmVoteAt, call, serviceVars>>

(* simulateSensorEvent: the simulated reading is critical; the prediction
   is a flood unless its random noise is at the lowest value *)
SimulateSensorEvent(sensorId, isFlooding) ==
  /\ isFlooding => Len(reports) + PendingSubmits < MaxReports
  /\ Len(notifications) < MaxNotifications
  /\ LET i == FindIndex(sensors, LAMBDA sn : sn.id = sensorId)
         st == addNotification(Store, "iot", now)
     IN  /\ i # 0
         /\ sensors' = [sensors EXCEPT ![i].status =
                          IF isFlooding THEN "critical" ELSE "warning"]
         /\ SetStore(
              IF isFlooding
                THEN [st EXCEPT !.timers = InsertTimer(@,
                        Timer(now + SUBMIT_DELAY, "submitReport",
                              [location |-> sensors[i].location,
                               photoUrl |-> FALSE, photoVerified |-> TRUE,
                               timestamp |-> now, isActive |-> TRUE]))]
                ELSE st)
  /\ UNCHANGED <<now, reports, cityWideAlerts, weather, interactions,
                 confirmVoteAt, call, serviceVars>>

(* handleVote on an alert that the feed shows (an active alert of the
   store).  confirmVoteAt is history: when the last confirm vote was cast *)
handleVote_moves_road_state(i, type) ==
  /\ i \in 1..Len(alerts)
  /\ alerts[i].isActive
  /\ getInteraction(interactions, alerts[i]).userVote # type
  /\ LET alert == alerts[i]
         o == voteOutcome(interactions, alert, type, weather, now)
     IN  /\ timers' = IF o.shouldResolve
                        THEN InsertTimer(timers,
                               Timer(now, "resolveAlert", alert.id))
                        ELSE timers
         /\ alerts' = IF o.shouldMonitor /\ "roadState" \in DOMAIN alert
                           /\ alert.roadState = "flooded"
                        THEN [alerts EXCEPT ![i].roadState = "monitoring"]
                        ELSE alerts
         /\ interactions' = MapSet(interactions, alert.id,
                              [userVote |-> type,
                               localResolved |-> o.newResolved,
                               localConfirmed |-> o.newConfirmed])
         /\ confirmVoteAt' = IF type = "confirm"
                               THEN MapSet(confirmVoteAt, alert.id, now)
                               ELSE confirmVoteAt
  /\ UNCHANGED <<now, reports, cityWideAlerts, weather, sensors,
                 notifications, followUpPrompts, nextId, call, serviceVars>>

handleVote(i, type) ==
  /\ i \in 1..Len(alerts)
  /\ alerts[i].isActive
  /\ getInteraction(interactions, alerts[i]).userVote # type
  /\ LET alert == alerts[i]
         o == voteOutcome(interactions, alert, type, weather, now)
     IN  /\ timers' = IF o.shouldResolve
                        THEN InsertTimer(timers,
                               Timer(now, "resolveAlert", alert.id))
                        ELSE timers
         /\ interactions' = MapSet(interactions, alert.id,
                              [userVote |-> type,
                               localResolved |-> o.newResolved,
                               localConfirmed |-> o.newConfirmed])
         /\ confirmVoteAt' = IF type = "confirm"
                               THEN MapSet(confirmVoteAt, alert.id, now)
                               ELSE confirmVoteAt
  /\ UNCHANGED <<now, reports, alerts, cityWideAlerts, weather, sensors,
                 notifications, followUpPrompts, nextId, call, serviceVars>>

(* time passes up to the next multiple of step, but not beyond the next
   callback that is due *)
Tick(step) ==
  /\ now' = IF timers # <<>> /\ Head(timers).due < ((now \div step) + 1) * step
              THEN Head(timers).due ELSE ((now \div step) + 1) * step
  /\ now' > now
  /\ now' <= MaxHours * 60 * ONE_MINUTE
  /\ UNCHANGED <<reports, alerts, cityWideAlerts, weather, sensors,
                 notifications, followUpPrompts, timers, interactions,
                 nextId, confirmVoteAt, call, serviceVars>>

(* the instants at which the user acts: the multiples of step *)
InputInstant(step) == now % step = 0

----------------------------------------------------------------------------
(* Reports, sensor events, processing passes and follow-up answers.  The
   user acts at the start and two hours later; callbacks run when they are
   due. *)

Next ==
  \/ /\ InputInstant(120 * ONE_MINUTE)
     /\ \E location \in FormLocations : SubmitReport(location, NoPhoto)
  \/ SubmitReportResume
  \/ InputInstant(120 * ONE_MINUTE) /\ ProcessAlerts
  \/ ClearNotificationTimer
  \/ SendFollowUpTimer
  \/ /\ InputInstant(120 * ONE_MINUTE)
     /\ \E alertId \in KnownIds, stillOngoing \in BOOLEAN :
          RespondToFollowUp(alertId, stillOngoing)
  \/ InputInstant(120 * ONE_MINUTE) /\ SeedDemoData
  \/ /\ InputInstant(120 * ONE_MINUTE)
     /\ \E sensorId \in SimulatedSensors, isFlooding \in BOOLEAN :
          SimulateSensorEvent(sensorId, isFlooding)
  \/ Tick(120 * ONE_MINUTE)

Spec == Init /\ [][Next]_vars

(* Votes on the alert of one area under changing weather.  The user acts
   on the hour. *)
NextVote ==
  \/ InputInstant(60 * ONE_MINUTE) /\ SubmitReport(MaligaonWest, NoPhoto)
  \/ SubmitReportResume
  \/ ClearNotificationTimer
  \/ SendFollowUpTimer
  \/ /\ InputInstant(60 * ONE_MINUTE)
     /\ \E isRaining \in BOOLEAN, rainfallMm \in RainfallInputs :
          UpdateWeather(isRaining, rainfallMm)
  \/ /\ InputInstant(60 * ONE_MINUTE)
     /\ \E i \in 1..Len(alerts), type \in VoteTypes : handleVote(i, type)
  \/ Tick(60 * ONE_MINUTE)

SpecVote == Init /\ [][NextVote]_vars

----------------------------------------------------------------------------
(* Claims about the store *)

ActiveIndexes == {i \in 1..Len(alerts) : alerts[i].isActive}

(* C1: the alert collection never holds two active alerts with the same
   areaName, also after a pass in which two clusters resolve to one area *)
C1_UniqueActiveArea ==
  \A i, j \in ActiveIndexes : i # j => alerts[i].areaName # alerts[j].areaName

(* does a cluster of the reports rs pass the gate and resolve to areaName *)
StillAdmitted(areaName, rs, w, ss, t) ==
  LET clusters == groupByProximity(activeReports(rs, t),
                                   CLUSTER_RADIUS_METERS)
  IN  \E k \in 1..Len(clusters) :
        /\ passesGate(clusters[k], w, ss, t)
        /\ clusterArea(clusters[k]) = areaName

(* C2: over the pass that a submitted report causes, an active alert whose
   area still has an admitted cluster stays in the alert set, with its id
   and active *)
C2_PassKeepsActiveAlerts ==
  [][Len(reports') = Len(reports) + 1 =>
       \A i \in ActiveIndexes :
         StillAdmitted(alerts[i].areaName, reports', weather', sensors',
                       now') =>
           \E j \in 1..Len(alerts') :
             alerts'[j].id = alerts[i].id /\ alerts'[j].isActive]_vars

(* the alert whose vote is evaluated in this step *)
VotedOn(id) ==
  /\ interactions' # interactions
  /\ id \in DOMAIN interactions'
  /\ id \notin DOMAIN interactions \/ interactions'[id] # interactions[id]

RoadStateOf(as, id) ==
  LET i == FindIndex(as, LAMBDA a : a.id = id)
  IN  IF i # 0 /\ as[i].isActive /\ "roadState" \in DOMAIN as[i]
        THEN as[i].roadState ELSE "none"

(* a confirm vote on the alert was cast in the 15 minutes up to t *)
ConfirmedRecently(cva, id, t) ==
  id \in DOMAIN cva /\ t - cva[id] <= 15 * ONE_MINUTE

(* C9: a vote evaluation does not move an alert from flooded to monitoring
   when a confirm vote on it was cast within the preceding 15 minutes *)
C9_NoMonitoringAfterRecentConfirm ==
  [][\A id \in DOMAIN interactions' :
       (/\ VotedOn(id)
        /\ RoadStateOf(alerts, id) = "flooded"
        /\ ConfirmedRecently(confirmVoteAt', id, now))
         => RoadStateOf(alerts', id) # "monitoring"]_vars

(* a resolved vote has been evaluated on a flooded alert within 15 minutes
   of a confirm vote on it, in low rainfall *)
C9_Witness ==
  \E i \in ActiveIndexes :
    /\ RoadStateOf(alerts, alerts[i].id) = "flooded"
    /\ alerts[i].id \in DOMAIN interactions
    /\ interactions[alerts[i].id].userVote = "resolved"
    /\ interactions[alerts[i].id].localResolved >= 1
    /\ ConfirmedRecently(confirmVoteAt, alerts[i].id, now)
    /\ weather.rainfallMm < 50

(* C10: a vote evaluated on an active flooded alert that leaves
   resolvedCount >= 1, with no confirm vote in the last 15 minutes,
   rainfall below 5 mm and no full resolution, makes the alert monitoring *)
C10_ResolvedVoteStartsMonitoring ==
  [][\A id \in DOMAIN interactions' :
       (/\ VotedOn(id)
        /\ RoadStateOf(alerts, id) = "flooded"
        /\ interactions'[id].localResolved >= 1
        /\ ~ConfirmedRecently(confirmVoteAt', id, now)
        /\ weather.rainfallMm < 50
        /\ ~(interactions'[id].localResolved >= 2 /\ weather.rainfallMm < 20))
         => RoadStateOf(alerts', id) = "monitoring"]_vars

----------------------------------------------------------------------------
(* The functions of the alert engine on their own: the initial state holds
   the arguments of one call, and the step makes the call. *)

SeqsUpTo(S, lo, hi) == UNION {[1..k -> S] : k \in lo..hi}

SubSeqAt(s, S) ==
  LET marked == SelectSeq([k \in 1..Len(s) |-> [idx |-> k, item |-> s[k]]],
                          LAMBDA e : e.idx \in S)
  IN  [k \in 1..Len(marked) |-> marked[k].item]

(* the time of the call *)
CallTime == 2 * TWO_HOURS

(* determineSeverity *)

InitSeverity ==
  /\ StoreInit
  /\ call \in {[fn |-> "determineSeverity", confidence |-> c,
                reportCount |-> n, applied |-> FALSE, result |-> "none"] :
               c \in 0..MaxConfidence, n \in 0..MaxCount}

CallDetermineSeverity ==
  /\ ~call.applied
  /\ call' = [call EXCEPT !.applied = TRUE,
                !.result = determineSeverity(call.confidence,
                                             call.reportCount)]
  /\ UNCHANGED <<storeVars, serviceVars>>

SpecSeverity == InitSeverity /\ [][CallDetermineSeverity]_vars

(* C5: determineSeverity is critical iff confidence >= 6 or
   reportCount >= 4, otherwise high iff confidence >= 4 or
   reportCount >= 3, otherwise medium *)
C5_SeverityThresholds ==
  call.applied =>
    LET c == call.confidence
        n == call.reportCount
        crit == c >= 6 \/ n >= 4
        high == ~crit /\ (c >= 4 \/ n >= 3)
    IN  /\ (call.result = "critical") <=> crit
        /\ (call.result = "high") <=> high
        /\ (call.result = "medium") <=> (~crit /\ ~high)

(* the three cases the claim names have been computed *)
C5_Witness ==
  /\ call.applied
  /\ \/ call.confidence = 2 /\ call.reportCount = 4
        /\ call.result = "critical"
     \/ call.confidence = 6 /\ call.reportCount = 1
        /\ call.result = "critical"
     \/ call.confidence = 3 /\ call.reportCount = 2
        /\ call.result = "medium"

(* calculateConfidence, before and after one photo-verified report is added
   to the cluster *)

(* a seed on Zoo Road, a point 445 m north of it (inside the cluster
   radius), and a sensor 0.0049 degree south of the seed *)
ConfidenceSeed == Coord(2616380, 9176740)
ConfidenceNorth == Coord(2616780, 9176740)
SensorSouth == Coord(2615890, 9176740)

ConfidenceReports ==
  {[location |-> l, photoUrl |-> p.photoUrl,
    photoVerified |-> p.photoVerified, timestamp |-> CallTime - age,
    isActive |-> TRUE] :
   l \in {ConfidenceSeed, ConfidenceNorth}, p \in PhotoKinds,
   age \in {0, TEN_MINUTES}}

PhotoVerifiedReports ==
  {r \in ConfidenceReports : r.photoUrl /\ r.photoVerified}

ConfidenceSensors ==
  {<<>>} \cup {<<[id |-> "sensor-1", location |-> SensorSouth,
                  status |-> st]>> : st \in {"normal", "critical"}}

InitConfidence ==
  /\ StoreInit
  /\ call \in {[fn |-> "calculateConfidence", cluster |-> cl, added |-> r,
                weather |-> [isRaining |-> rain, rainfallMm |-> 125],
                sensors |-> ss, applied |-> FALSE,
                before |-> None, after |-> None] :
               cl \in SeqsUpTo(ConfidenceReports, 1, MaxCluster),
               r \in PhotoVerifiedReports, rain \in BOOLEAN,
               ss \in ConfidenceSensors}

CallCalculateConfidence ==
  /\ ~call.applied
  /\ call' = [call EXCEPT !.applied = TRUE,
                !.before = calculateConfidence(call.cluster, call.weather,
                                               call.sensors, CallTime),
                !.after = calculateConfidence(
                            Append(call.cluster, call.added), call.weather,
                            call.sensors, CallTime)]
  /\ UNCHANGED <<storeVars, serviceVars>>

SpecConfidence == InitConfidence /\ [][CallCalculateConfidence]_vars

(* C7: the recency bonus of a cluster is 1 when at least one of its
   reports is newer than 10 minutes and 0 otherwise *)
C7_RecencyBonusOnce ==
  call.applied =>
    call.before.recencyBonus =
      (IF \E i \in 1..Len(call.cluster) :
            call.cluster[i].timestamp > CallTime - TEN_MINUTES
         THEN 1 ELSE 0)

(* C8: adding one photo-verified report to a cluster does not lower the
   confidence total *)
C8_PhotoVerifiedReportNeverLowers ==
  call.applied => call.after.totalScore >= call.before.totalScore

(* the added report moved the centroid out of the box of the critical
   sensor, and the total stayed where it was *)
C8_Witness ==
  /\ call.applied
  /\ call.before.sensorBonus = SENSOR_CONFIRMED
  /\ call.after.sensorBonus = 0
  /\ call.after.totalScore = call.before.totalScore

(* processReportsForAlerts *)

EngineReports ==
  {[location |-> l, photoUrl |-> FALSE, photoVerified |-> FALSE,
    timestamp |-> CallTime - k.age, isActive |-> k.isActive] :
   l \in {MaligaonWest, MaligaonEast},
   k \in {[age |-> 0, isActive |-> TRUE], [age |-> 0, isActive |-> FALSE],
          [age |-> TWO_HOURS, isActive |-> TRUE]}}

(* the alert that an earlier pass, half an hour before, created for two
   reports at Maligaon *)
EarlierAlert ==
  LET t0 == CallTime - 30 * ONE_MINUTE
      cluster == [k \in 1..2 |->
                    [location |-> MaligaonWest, photoUrl |-> FALSE,
                     photoVerified |-> FALSE, timestamp |-> t0,
                     isActive |-> TRUE]]
  IN  newAlert(<<"uuid", 0>>, clusterArea(cluster),
               calculateConfidence(cluster, DEFAULT_WEATHER,
                                   DEFAULT_SENSORS, t0),
               cluster, t0)

EngineExisting ==
  {<<>>, <<EarlierAlert>>, <<Merge(EarlierAlert, [isActive |-> FALSE])>>}

InitEngine ==
  /\ StoreInit
  /\ call \in {[fn |-> "processReportsForAlerts", reports |-> rs,
                weather |-> [isRaining |-> rain, rainfallMm |-> 125],
                existingAlerts |-> ex, applied |-> FALSE,
                result |-> None] :
               rs \in SeqsUpTo(EngineReports, 0, MaxEngineReports),
               rain \in BOOLEAN, ex \in EngineExisting}

CallProcessReportsForAlerts ==
  /\ ~call.applied
  /\ call' = [call EXCEPT !.applied = TRUE,
                !.result = processReportsForAlerts(call.reports,
                             call.weather, call.existingAlerts,
                             DEFAULT_SENSORS, CallTime, 1)]
  /\ UNCHANGED <<storeVars, serviceVars>>

SpecEngine == InitEngine /\ [][CallProcessReportsForAlerts]_vars

UpdatedFields == {"confidenceScore", "reportCount", "severity"}

(* C3: a pass that finds an active alert for the area of a cluster changes
   only confidenceScore, reportCount and severity of that alert, and
   creates no second alert for the area *)
C3_UpdateInPlace ==
  call.applied =>
    LET before == call.existingAlerts
        after == call.result.existingAlerts
    IN  /\ Len(after) = Len(before)
        /\ \A i \in 1..Len(before) :
             /\ DOMAIN after[i] = DOMAIN before[i]
             /\ \A f \in DOMAIN before[i] \ UpdatedFields :
                  after[i][f] = before[i][f]
             /\ before[i].isActive =>
                  \A k \in 1..Len(call.result.newAlerts) :
                    call.result.newAlerts[k].areaName # before[i].areaName

(* the pass has updated the active alert of the area in place *)
C3_Witness ==
  /\ call.applied
  /\ \E i \in 1..Len(call.existingAlerts) :
       /\ call.existingAlerts[i].isActive
       /\ call.result.existingAlerts[i].reportCount
            # call.existingAlerts[i].reportCount

(* some admissible reports of the call back the alert: at least two, each
   active and newer than two hours, with a total of at least 3, giving the
   alert its area, reportCount and confidenceScore *)
Backed(alert) ==
  \E S \in SUBSET (1..Len(call.reports)) :
    /\ Cardinality(S) >= 2
    /\ \A i \in S : /\ call.reports[i].isActive
                    /\ call.reports[i].timestamp > CallTime - 120 * ONE_MINUTE
    /\ LET cluster == SubSeqAt(call.reports, S)
           total == calculateConfidence(cluster, call.weather,
                                        DEFAULT_SENSORS, CallTime).totalScore
       IN  /\ total >= 3
           /\ alert.reportCount = Cardinality(S)
           /\ alert.confidenceScore = total
           /\ alert.areaName = clusterArea(cluster)

(* C4: every alert a pass creates or changes is backed by a cluster of at
   least 2 reports, each active and within the last 2 hours, with a
   confidence total of at least 3 *)
C4_AdmissionGate ==
  call.applied =>
    /\ \A k \in 1..Len(call.result.newAlerts) :
         Backed(call.result.newAlerts[k])
    /\ \A i \in 1..Len(call.existingAlerts) :
         call.result.existingAlerts[i] # call.existingAlerts[i] =>
           Backed(call.result.existingAlerts[i])

(* the pass raised an alert although some report of the call was inactive
   or older than two hours *)
C4_Witness ==
  /\ call.applied
  /\ call.result.newAlerts # <<>>
  /\ \E i \in 1..Len(call.reports) : ~call.reports[i].isActive
  /\ \E i \in 1..Len(call.reports) :
       call.reports[i].timestamp <= CallTime - TWO_HOURS

(* C6: a new alert is active, has radius 800, expires 60 minutes after
   triggeredAt, has both vote counts at 0, and its road state is flooded
   for severity critical or high and monitoring otherwise *)
C6_NewAlertFields ==
  call.applied =>
    \A k \in 1..Len(call.result.newAlerts) :
      LET a == call.result.newAlerts[k]
      IN  /\ a.isActive
          /\ a.radius = 800
          /\ a.triggeredAt = CallTime
          /\ a.expiresAt = a.triggeredAt + 60 * ONE_MINUTE
          /\ a.resolvedCount = 0
          /\ a.confirmedCount = 0
          /\ a.roadState = (IF a.severity \in {"critical", "high"}
                              THEN "flooded" ELSE "monitoring")

(* the pass created alerts for two areas' worth of clusters *)
C6_Witness ==
  /\ call.applied
  /\ Len(call.result.newAlerts) = 2

----------------------------------------------------------------------------
(* The vote handler on an alert that already carries tallies: the feed is
   handed the alert of two reports near Maligaon, with resolvedCount and
   confirmedCount as the Alert type allows them. *)

TallyReports ==
  << [location |-> MaligaonWest, photoUrl |-> FALSE, photoVerified |-> FALSE,
      timestamp |-> 0, isActive |-> TRUE],
     [location |-> MaligaonWest, photoUrl |-> FALSE, photoVerified |-> FALSE,
      timestamp |-> 0, isActive |-> TRUE] >>

TallyAlert(resolvedCount, confirmedCount) ==
  Merge(processReportsForAlerts(TallyReports, DEFAULT_WEATHER, <<>>,
                                DEFAULT_SENSORS, 0, 0).newAlerts[1],
        [resolvedCount |-> resolvedCount, confirmedCount |-> confirmedCount])

InitTally ==
  /\ now = 0
  /\ reports = TallyReports
  /\ \E r, c \in 0..MaxTally : alerts = <<TallyAlert(r, c)>>
  /\ cityWideAlerts = <<>>
  /\ weather = DEFAULT_WEATHER
  /\ sensors = DEFAULT_SENSORS
  /\ notifications = <<>>
  /\ followUpPrompts = <<>>
  /\ timers = <<>>
  /\ interactions = <<>>
  /\ nextId = 1
  /\ confirmVoteAt = <<>>
  /\ geocoder = GeocoderInit
  /\ bot = BotInit
  /\ poller = PollerInit
  /\ call = None

(* no callback is due: a click is handled after the callbacks that are
   already due *)
Idle == IF timers = <<>> THEN TRUE ELSE Head(timers).due > now

NextTally ==
  \/ /\ Idle
     /\ \E i \in 1..Len(alerts), type \in VoteTypes : handleVote(i, type)
  \/ ResolveAlertTimer
  \/ /\ Idle
     /\ \E isRaining \in BOOLEAN, rainfallMm \in RainfallInputs :
          UpdateWeather(isRaining, rainfallMm)

SpecTally == InitTally /\ [][NextTally]_vars

IsActiveIn(as, id) == \E i \in 1..Len(as) : as[i].id = id /\ as[i].isActive

(* the callback that handleVote schedules runs in this step *)
ResolveCallbackRuns ==
  IF timers = <<>> THEN FALSE
  ELSE Head(timers).kind = "resolveAlert" /\ timers' = Tail(timers)

(* C11: a vote evaluation that leaves resolvedCount >= 2 with rainfall
   below 2 mm makes the alert inactive (when the callback it schedules
   runs); one that leaves resolvedCount = 1, or rainfall of 2 mm or more,
   leaves the alert active *)
C11_VoteThresholdResolves ==
  [][/\ ResolveCallbackRuns => ~IsActiveIn(alerts', Head(timers).arg)
     /\ \A id \in DOMAIN interactions' :
          (/\ VotedOn(id)
           /\ IsActiveIn(alerts, id)
           /\ \/ interactions'[id].localResolved = 1
              \/ weather.rainfallMm >= 20)
            => /\ IsActiveIn(alerts', id)
               /\ timers' = timers]_vars

(* C12: a confirm vote on an alert sets the alert's lastConfirmedAt to the
   time of the vote *)
C12_ConfirmSetsLastConfirmedAt ==
  [][\A id \in DOMAIN interactions' :
       (VotedOn(id) /\ interactions'[id].userVote = "confirm")
         => \E i \in 1..Len(alerts') :
              /\ alerts'[i].id = id
              /\ "lastConfirmedAt" \in DOMAIN alerts'[i]
              /\ alerts'[i].lastConfirmedAt = now]_vars

(* the tallies of the alert with this id as the feed shows them *)
TalliesOf(ia, as, id) ==
  getInteraction(ia, as[FindIndex(as, LAMBDA a : a.id = id)])

(* C13: the user contributes exactly one to the tallies of an alert they
   voted on, in the bucket of their latest vote *)
C13_OneVotePerUser ==
  \A i \in 1..Len(alerts) :
    alerts[i].id \in DOMAIN interactions =>
      LET ia == interactions[alerts[i].id]
      IN  /\ ia.userVote \in VoteTypes
          /\ ia.localResolved = FieldOr(alerts[i], "resolvedCount", 0)
                + (IF ia.userVote = "resolved" THEN 1 ELSE 0)
          /\ ia.localConfirmed = FieldOr(alerts[i], "confirmedCount", 0)
                + (IF ia.userVote = "confirm" THEN 1 ELSE 0)

(* the user voted confirm on an alert with confirm votes of others and then
   switched to resolved *)
C13_Witness ==
  \E i \in 1..Len(alerts) :
    /\ alerts[i].id \in DOMAIN interactions
    /\ alerts[i].id \in DOMAIN confirmVoteAt
    /\ interactions[alerts[i].id].userVote = "resolved"
    /\ alerts[i].confirmedCount >= 1
    /\ alerts[i].resolvedCount >= 1

(* C14: over a vote, also a switched one, neither tally of the alert
   decreases *)
C14_TalliesNeverDecrease ==
  [][\A id \in DOMAIN interactions' :
       VotedOn(id) =>
         /\ interactions'[id].localResolved
              >= TalliesOf(interactions, alerts, id).localResolved
         /\ interactions'[id].localConfirmed
              >= TalliesOf(interactions, alerts, id).localConfirmed]_vars

(* C14 as amended: a vote lowers a tally only when the user switches away
   from that bucket, and then by exactly one; the other tally and the
   tallies of a first vote do not decrease *)
C14_TallyDropsOnlyOnSwitch ==
  [][\A id \in DOMAIN interactions' :
       VotedOn(id) =>
         LET before == TalliesOf(interactions, alerts, id)
             after == interactions'[id]
         IN  /\ after.localResolved = before.localResolved
                   - (IF before.userVote = "resolved" THEN 1 ELSE 0)
                   + (IF after.userVote = "resolved" THEN 1 ELSE 0)
             /\ after.localConfirmed = before.localConfirmed
                   - (IF before.userVote = "confirm" THEN 1 ELSE 0)
                   + (IF after.userVote = "confirm" THEN 1 ELSE 0)
             /\ before.userVote # after.userVote]_vars

(* the user switched from confirm to resolved on an alert without confirm
   votes of others: the confirm tally is back at 0 *)
C14_Witness ==
  \E i \in 1..Len(alerts) :
    /\ alerts[i].id \in DOMAIN interactions
    /\ alerts[i].id \in DOMAIN confirmVoteAt
    /\ interactions[alerts[i].id].userVote = "resolved"
    /\ interactions[alerts[i].id].localConfirmed = 0

----------------------------------------------------------------------------
(* Claims about follow-ups *)

(* the step is respondToFollowUp with the answer NO *)
AnsweredNo == notifications' = Append(notifications, "resolved")

(* C15: respondToFollowUp(alertId, FALSE) makes the alert with that id
   inactive at once, whatever its vote counts and the rainfall, and changes
   no other alert *)
C15_NoAnswerResolvesAtOnce ==
  [][AnsweredNo =>
       \E alertId \in KnownIds :
         /\ Len(alerts') = Len(alerts)
         /\ \A i \in 1..Len(alerts) :
              IF alerts[i].id = alertId
                THEN /\ ~alerts'[i].isActive
                     /\ alerts'[i] = Merge(alerts[i], [isActive |-> FALSE])
                ELSE alerts'[i] = alerts[i]]_vars

(* a NO answer has resolved one of two alerts and the other is active *)
C15_Witness ==
  /\ notifications # <<>>
  /\ notifications[Len(notifications)] = "resolved"
  /\ \E i, j \in 1..Len(alerts) :
       /\ ~alerts[i].isActive
       /\ alerts[j].isActive
       /\ "resolvedCount" \in DOMAIN alerts[i]
       /\ alerts[i].resolvedCount = 0

(* the follow-up callbacks that are scheduled for the alert *)
FollowUpTimersFor(ts, id) ==
  Cardinality({k \in 1..Len(ts) :
                 ts[k].kind = "sendFollowUp" /\ ts[k].arg = id})

(* C16: the step that creates an alert schedules exactly one follow-up
   callback for it, due 60 seconds after triggeredAt; no later step
   schedules another one for it; the callback runs when it is due *)
C16_OneFollowUpTimer ==
  [][/\ \A n \in 0..(nextId' - 1) :
          LET id == <<"uuid", n>>
          IN  IF n >= nextId
                THEN /\ FollowUpTimersFor(timers', id) = 1
                     /\ \E i \in 1..Len(alerts'), k \in 1..Len(timers') :
                          /\ alerts'[i].id = id
                          /\ timers'[k].kind = "sendFollowUp"
                          /\ timers'[k].arg = id
                          /\ timers'[k].due
                               = alerts'[i].triggeredAt + ONE_MINUTE
                ELSE FollowUpTimersFor(timers', id)
                       <= FollowUpTimersFor(timers, id)
     /\ \A n \in 0..(nextId - 1) :
          FollowUpTimersFor(timers', <<"uuid", n>>)
            < FollowUpTimersFor(timers, <<"uuid", n>>)
            => Head(timers).due = now]_vars

(* the follow-up of one alert has run and a later pass has created another
   alert *)
C16_Witness ==
  /\ nextId >= 2
  /\ \E id \in DOMAIN followUpPrompts : FollowUpTimersFor(timers, id) = 0

----------------------------------------------------------------------------
(* shouldSendFollowUp on its own *)

(* ages of the alert and of the last prompt at the call, around the limit
   of 60 seconds *)
AgeInputs == {0, 60, 119, 120, 121, 140, 180, 240, 360}
PromptAgeInputs == {0, 20, 119, 120, 121, 140, 240}

(* the last prompt is not older than the alert *)
PromptInputs(age) ==
  {<<>>} \cup {<<CallTime - p>> : p \in {q \in PromptAgeInputs : q <= age}}

InitFollowUp ==
  /\ StoreInit
  /\ \E age \in AgeInputs, active \in BOOLEAN :
       \E prompt \in PromptInputs(age) :
         call = [fn |-> "shouldSendFollowUp",
                 alert |-> Merge(TallyAlert(0, 0),
                                 [triggeredAt |-> CallTime - age,
                                  expiresAt |-> CallTime - age
                                                  + 60 * ONE_MINUTE,
                                  isActive |-> active]),
                 lastPromptTime |-> prompt,
                 applied |-> FALSE, result |-> FALSE]

CallShouldSendFollowUp ==
  /\ ~call.applied
  /\ call' = [call EXCEPT !.applied = TRUE,
                !.result = shouldSendFollowUp(call.alert,
                                              call.lastPromptTime, CallTime)]
  /\ UNCHANGED <<storeVars, serviceVars>>

SpecFollowUp == InitFollowUp /\ [][CallShouldSendFollowUp]_vars

(* C17: shouldSendFollowUp is false for an alert younger than 60 s; for an
   older one it is true without a prompt, false when the last prompt is
   less than 60 s old and true when it is more than 60 s old *)
C17_FollowUpGuard ==
  call.applied =>
    LET age == CallTime - call.alert.triggeredAt
        prompt == call.lastPromptTime
    IN  /\ age < 60 * 2 => ~call.result
        /\ (age >= 60 * 2 /\ prompt = <<>>) => call.result
        /\ (age >= 60 * 2 /\ prompt # <<>>) =>
             /\ CallTime - prompt[1] < 60 * 2 => ~call.result
             /\ CallTime - prompt[1] > 60 * 2 => call.result

(* the call was made for an alert of 90 s, 10 s after the first prompt *)
C17_Witness ==
  /\ call.applied
  /\ CallTime - call.alert.triggeredAt = 180
  /\ call.lastPromptTime = <<CallTime - 20>>
  /\ ~call.result

(* C18: shouldSendFollowUp is false for a resolved alert, whatever its age
   and the last prompt time *)
C18_NoFollowUpForResolved ==
  (call.applied /\ ~call.alert.isActive) => ~call.result

----------------------------------------------------------------------------
(* Answers that arrive while the follow-up of an alert is pending: reports
   come in at the start, NO answers every 30 seconds. *)

NextAnswer ==
  \/ /\ InputInstant(120 * ONE_MINUTE)
     /\ \E location \in FormLocations : SubmitReport(location, NoPhoto)
  \/ SubmitReportResume
  \/ ClearNotificationTimer
  \/ SendFollowUpTimer
  \/ /\ InputInstant(ONE_MINUTE \div 2)
     /\ \E alertId \in KnownIds : RespondToFollowUp(alertId, FALSE)
  \/ Tick(ONE_MINUTE \div 2)

SpecAnswer == Init /\ [][NextAnswer]_vars

(* the follow-up callback of the alert runs in this step *)
FollowUpCallbackRuns(id) ==
  FollowUpTimersFor(timers', id) < FollowUpTimersFor(timers, id)

(* C19: when the follow-up callback of an alert runs and the alert is
   resolved or no longer in the collection, nothing changes: no
   notification is added and followUpPrompts gets no entry *)
C19_FollowUpOfResolvedIsNoOp ==
  [][\A n \in 0..(nextId - 1) :
       (/\ FollowUpCallbackRuns(<<"uuid", n>>)
        /\ ~IsActiveIn(alerts, <<"uuid", n>>))
         => /\ notifications' = notifications
            /\ followUpPrompts' = followUpPrompts
            /\ alerts' = alerts
            /\ timers' = Tail(timers)]_vars

(* the callbacks of two alerts have run, one for an alert that a pass had
   dropped and one for an alert that a NO answer had resolved; neither
   left a prompt *)
C19_Witness ==
  \E n, m \in 0..(nextId - 1) :
    /\ <<"uuid", n>> \notin Ids(alerts)
    /\ FollowUpTimersFor(timers, <<"uuid", n>>) = 0
    /\ <<"uuid", n>> \notin DOMAIN followUpPrompts
    /\ \E i \in 1..Len(alerts) :
         alerts[i].id = <<"uuid", m>> /\ ~alerts[i].isActive
    /\ FollowUpTimersFor(timers, <<"uuid", m>>) = 0
    /\ <<"uuid", m>> \notin DOMAIN followUpPrompts

----------------------------------------------------------------------------
(* Expiry *)

(* C20: the passing of expiresAt deactivates no alert: an active alert
   becomes inactive only in the step of a NO answer, and a step in which
   time passes changes no alert *)
C20_OnlyResolutionDeactivates ==
  [][/\ \A i \in ActiveIndexes :
          (\E j \in 1..Len(alerts') :
             alerts'[j].id = alerts[i].id /\ ~alerts'[j].isActive)
            => AnsweredNo
     /\ now' # now => alerts' = alerts]_vars

(* an alert is still active in the collection after its expiresAt, and a
   callback has run since *)
C20_Witness ==
  /\ \E i \in ActiveIndexes : alerts[i].expiresAt < now
  /\ followUpPrompts # <<>>

----------------------------------------------------------------------------
(* Answers and votes on alerts that are gone or resolved *)

(* the step is respondToFollowUp: it has added its thank-you message *)
Answered ==
  \/ notifications' = Append(notifications, "resolved")
  \/ notifications' = Append(notifications, "extended")

(* C21: an answer that changes the state was given for an alert that is
   in the collection and active; an answer for an unknown or resolved
   alert changes nothing, no notification included *)
C21_InvalidAnswerIsNoOp ==
  [][Answered =>
       \E i \in ActiveIndexes :
         /\ Len(alerts') = Len(alerts)
         /\ alerts'[i].id = alerts[i].id
         /\ \A k \in 1..Len(alerts) :
              alerts[k].id # alerts[i].id => alerts'[k] = alerts[k]]_vars

----------------------------------------------------------------------------
(* groupByProximity on its own *)

(* four points on a line, 300 m from one to the next: neighbours are
   within the cluster radius, the others are not *)
GroupPoints == {Coord(2615560, 9168000 + 300 * k) : k \in 0..3}

(* the items carry their position in the input *)
GroupItems ==
  {[k \in 1..Len(ps) |-> [key |-> k, location |-> ps[k]]] :
     ps \in SeqsUpTo(GroupPoints, 0, MaxGroupItems)}

InitGroup ==
  /\ StoreInit
  /\ \E items \in GroupItems,
        radiusMeters \in {CLUSTER_RADIUS_METERS, ALERT_RADIUS_METERS} :
       call = [fn |-> "groupByProximity", items |-> items,
               radiusMeters |-> radiusMeters, applied |-> FALSE,
               result |-> <<>>]

CallGroupByProximity ==
  /\ ~call.applied
  /\ call' = [call EXCEPT !.applied = TRUE,
                !.result = groupByProximity(call.items, call.radiusMeters)]
  /\ UNCHANGED <<storeVars, serviceVars>>

SpecGroup == InitGroup /\ [][CallGroupByProximity]_vars

(* C22: the groups partition the input; the first element of a group is
   its seed, every member is within the radius of the seed, and each item
   is in the group of the earliest seed that is within the radius of it;
   an empty input gives no group *)
C22_GroupsPartitionBySeed ==
  call.applied =>
    LET groups == call.result
        r == call.radiusMeters
        Seeds == {groups[g][1].key : g \in 1..Len(groups)}
    IN  /\ call.items = <<>> => groups = <<>>
        /\ \A g \in 1..Len(groups) : groups[g] # <<>>
        /\ \A k \in 1..Len(call.items) :
             Cardinality({<<g, m>> \in (1..Len(groups))
                                        \X (1..Len(call.items)) :
                            /\ m <= Len(groups[g])
                            /\ groups[g][m] = call.items[k]}) = 1
        /\ \A g \in 1..Len(groups) : \A m \in 1..Len(groups[g]) :
             /\ groups[g][m] \in {call.items[k] : k \in 1..Len(call.items)}
             /\ isWithinRadius(groups[g][1].location,
                               groups[g][m].location, r)
             /\ \A s \in Seeds :
                  isWithinRadius(call.items[s].location,
                                 groups[g][m].location, r)
                    => groups[g][1].key <= s

(* the call was made on a chain: the second item is within the radius of
   the first and of the third, which are not within the radius of each
   other, so the third item seeds a group of its own *)
C22_Witness ==
  /\ call.applied
  /\ Len(call.items) = 3
  /\ Len(call.result) = 2
  /\ Len(call.result[1]) = 2
  /\ isWithinRadius(call.items[2].location, call.items[3].location,
                    call.radiusMeters)

----------------------------------------------------------------------------
(* Resolution and the reports behind the alert *)

(* the active reports behind the alerts of the area: the members of the
   clusters that resolve to it *)
ClusterReportsOf(areaName, rs, t) ==
  LET clusters == groupByProximity(activeReports(rs, t),
                                   CLUSTER_RADIUS_METERS)
  IN  UNION {{clusters[k][m] : m \in 1..Len(clusters[k])} :
               k \in {c \in 1..Len(clusters) :
                        clusterArea(clusters[c]) = areaName}}

(* C23: when an alert is resolved, the reports of its cluster are marked
   inactive *)
C23_ResolutionRetiresReports ==
  [][\A i \in ActiveIndexes :
       (\E j \in 1..Len(alerts') :
          alerts'[j].id = alerts[i].id /\ ~alerts'[j].isActive)
         => \A r \in ClusterReportsOf(alerts[i].areaName, reports, now) :
              \A k \in 1..Len(reports') :
                (/\ reports'[k].location = r.location
                 /\ reports'[k].timestamp = r.timestamp)
                  => ~reports'[k].isActive]_vars

(* C24: a YES answer never moves the expiresAt of an alert to an earlier
   time *)
C24_ExpiryNeverEarlier ==
  [][\A i \in 1..Len(alerts), j \in 1..Len(alerts') :
       alerts'[j].id = alerts[i].id
         => alerts'[j].expiresAt >= alerts[i].expiresAt]_vars

----------------------------------------------------------------------------
(* The lowest scores that pass the gate: reports without photo, fresh or
   half an hour old, with and without rain *)

GateReports ==
  {[location |-> l, photoUrl |-> FALSE, photoVerified |-> FALSE,
    timestamp |-> CallTime - age, isActive |-> TRUE] :
   l \in {MaligaonWest, MaligaonEast}, age \in {0, 30 * ONE_MINUTE}}

InitGate ==
  /\ StoreInit
  /\ call \in {[fn |-> "processReportsForAlerts", reports |-> rs,
                weather |-> [isRaining |-> rain, rainfallMm |-> 125],
                existingAlerts |-> ex, applied |-> FALSE,
                result |-> None] :
               rs \in SeqsUpTo(GateReports, 0, MaxEngineReports),
               rain \in BOOLEAN, ex \in EngineExisting}

SpecGate == InitGate /\ [][CallProcessReportsForAlerts]_vars

(* C25: every alert the pass creates or updates has severity high or
   critical, and every alert it creates starts with roadState flooded *)
C25_NeverMedium ==
  call.applied =>
    /\ \A k \in 1..Len(call.result.newAlerts) :
         /\ call.result.newAlerts[k].severity \in {"high", "critical"}
         /\ call.result.newAlerts[k].roadState = "flooded"
    /\ \A k \in 1..Len(call.result.existingAlerts) :
         call.result.existingAlerts[k] # call.existingAlerts[k]
           => call.result.existingAlerts[k].severity \in {"high", "critical"}

(* the pass created an alert at the lowest score two reports can have:
   two reports of half an hour ago, no rain, confidence 4 *)
C25_Witness ==
  /\ call.applied
  /\ ~call.weather.isRaining
  /\ \E k \in 1..Len(call.result.newAlerts) :
       /\ call.result.newAlerts[k].confidenceScore = 4
       /\ call.result.newAlerts[k].reportCount = 2
       /\ call.result.newAlerts[k].severity = "high"

----------------------------------------------------------------------------
(* Notifications: additions, manual clears and the auto-clear callbacks.
   The message of a notification carries the time it was added, which
   tells the notifications apart; one is added at most every 2 seconds. *)

AddNotification(message) ==
  /\ Len(notifications) < MaxNotifications
  /\ \A k \in 1..Len(timers) : timers[k].due # now + NOTIFICATION_DELAY
  /\ SetStore(addNotification(Store, message, now))
  /\ UNCHANGED <<now, reports, cityWideAlerts, weather, sensors,
                 interactions, confirmVoteAt, call, serviceVars>>

(* clearNotification(index), index counted from 0 *)
ClearNotification(index) ==
  /\ index \in 0..(Len(notifications) - 1)
  /\ notifications' =
       SubSeqAt(notifications, (1..Len(notifications)) \ {index + 1})
  /\ UNCHANGED <<now, reports, alerts, cityWideAlerts, weather, sensors,
                 followUpPrompts, timers, interactions, nextId,
                 confirmVoteAt, call, serviceVars>>

NextNotify ==
  \/ InputInstant(4) /\ AddNotification(<<"note", now>>)
  \/ /\ InputInstant(4)
     /\ \E index \in 0..(MaxNotifications - 1) : ClearNotification(index)
  \/ ClearNotificationTimer
  \/ Tick(4)

SpecNotify == Init /\ [][NextNotify]_vars

(* the auto-clear callback of a notification runs in this step *)
AutoClearRuns ==
  IF timers = <<>> THEN FALSE
  ELSE Head(timers).kind = "clearNotification" /\ timers' = Tail(timers)

(* C26: the auto-clear callback of a notification removes that
   notification, 5 seconds after it was added, or nothing when it was
   cleared by hand; it never removes another notification *)
C26_AutoClearRemovesOwn ==
  [][AutoClearRuns =>
       LET own == <<"note", Head(timers).due - NOTIFICATION_DELAY>>
       IN  notifications' = SelectSeq(notifications, LAMBDA m : m # own)]_vars

----------------------------------------------------------------------------
(* Reverse geocoding: calls for uncached coordinates while time passes *)

ReverseGeocode ==
  /\ Len(geocoder.requests) + Len(geocoder.waiting) < MaxGeoCalls
  /\ geocoder' = reverseGeocode(geocoder)
  /\ UNCHANGED <<storeVars, call, bot, poller>>

WaitForRateLimitResume ==
  /\ geocoder.waiting # <<>>
  /\ Head(geocoder.waiting).due <= geocoder.clock
  /\ geocoder' = waitForRateLimitResume(geocoder)
  /\ UNCHANGED <<storeVars, call, bot, poller>>

(* a tenth of a second passes, unless a sleeping call is due *)
GeoTick ==
  /\ geocoder.clock < PageLoad + MaxGeoClock
  /\ IF geocoder.waiting = <<>> THEN TRUE
     ELSE Head(geocoder.waiting).due > geocoder.clock
  /\ geocoder' = [geocoder EXCEPT !.clock = @ + 1]
  /\ UNCHANGED <<storeVars, call, bot, poller>>

NextGeo == ReverseGeocode \/ WaitForRateLimitResume \/ GeoTick

SpecGeo == Init /\ [][NextGeo]_vars

(* C27: any two requests to Nominatim are at least 1100 ms apart *)
C27_RequestsSpaced ==
  \A i, j \in 1..Len(geocoder.requests) :
    i < j => geocoder.requests[j] - geocoder.requests[i]
               >= MIN_REQUEST_INTERVAL

----------------------------------------------------------------------------
(* The Telegram bot: updates of one user arrive at the webhook, and a
   request is handled while earlier ones are suspended *)

UpdateInputs ==
  {"Report Flood", "Flood", "Waterlogging", "location", "photo", "Skip",
   "Cancel", "Help"}

(* POST of the webhook: the handler runs up to its first suspension *)
WebhookPost(update) ==
  /\ update = "Report Flood" => bot.flows + (IF bot.session.state
        \in {"AWAITING_FLOOD_TYPE", "AWAITING_LOCATION"} THEN 1 ELSE 0)
        < MaxFlows
  /\ bot' = handleTelegramUpdate(bot, update)
  /\ Len(bot'.finalizing) <= MaxFinalizing
  /\ bot' # bot
  /\ UNCHANGED <<storeVars, call, geocoder, poller>>

HandlePhotoStateInsert(h) ==
  /\ h \in 1..Len(bot.finalizing)
  /\ bot.finalizing[h] = "insert"
  /\ bot' = handlePhotoStateInsert(bot, h)
  /\ UNCHANGED <<storeVars, call, geocoder, poller>>

HandlePhotoStateFinish(h) ==
  /\ h \in 1..Len(bot.finalizing)
  /\ bot.finalizing[h] = "send"
  /\ bot' = handlePhotoStateFinish(bot, h)
  /\ UNCHANGED <<storeVars, call, geocoder, poller>>

NextBot ==
  \/ \E update \in UpdateInputs : WebhookPost(update)
  \/ \E h \in 1..MaxFinalizing : HandlePhotoStateInsert(h)
  \/ \E h \in 1..MaxFinalizing : HandlePhotoStateFinish(h)

SpecBot == Init /\ [][NextBot]_vars

(* C28: the reports table holds at most one row for each report that
   reached the photo step and was not cancelled there *)
C28_OneRowPerFlow ==
  bot.rows <= bot.flows - bot.cancelled

----------------------------------------------------------------------------
(* Telegram polling: the effect of TelegramManager runs and is cleaned
   up, the loops poll and handle, updates arrive at the server *)

(* the effect runs (mount, or the second run of a remount) *)
EffectRun ==
  /\ ~poller.mounted
  /\ Len(poller.loops) < MaxLoops
  /\ poller' = [startPolling(poller) EXCEPT !.mounted = TRUE]
  /\ UNCHANGED <<storeVars, call, geocoder, bot>>

EffectCleanup ==
  /\ poller.mounted
  /\ poller' = [poller EXCEPT !.isPolling = FALSE, !.mounted = FALSE]
  /\ UNCHANGED <<storeVars, call, geocoder, bot>>

GetUpdatesReturns(l) ==
  /\ l \in 1..Len(poller.loops)
  /\ poller.loops[l].pc = "getUpdates"
  /\ poller' = getUpdates(poller, l)
  /\ UNCHANGED <<storeVars, call, geocoder, bot>>

(* getUpdates throws: the catch block, then the wait before the test *)
GetUpdatesThrows(l) ==
  /\ l \in 1..Len(poller.loops)
  /\ poller.loops[l].pc = "getUpdates"
  /\ poller' = [poller EXCEPT !.loops[l].pc = "waiting"]
  /\ UNCHANGED <<storeVars, call, geocoder, bot>>

HandleUpdate(l, completes) ==
  /\ l \in 1..Len(poller.loops)
  /\ poller.loops[l].pc = "handling"
  /\ poller' = [poller EXCEPT
                  !.loops[l] = handleUpdate(poller.loops[l], completes)]
  /\ UNCHANGED <<storeVars, call, geocoder, bot>>

(* the test of "while (isPolling.current)" after the wait *)
WhileTest(l) ==
  /\ l \in 1..Len(poller.loops)
  /\ poller.loops[l].pc = "waiting"
  /\ poller' = [poller EXCEPT !.loops[l].pc =
                  IF poller.isPolling THEN "getUpdates" ELSE "stopped"]
  /\ UNCHANGED <<storeVars, call, geocoder, bot>>

(* a user sends a message to the bot *)
UpdateArrives ==
  /\ poller.updates < MaxUpdates
  /\ poller' = [poller EXCEPT !.updates = @ + 1]
  /\ UNCHANGED <<storeVars, call, geocoder, bot>>

NextPoll ==
  \/ EffectRun
  \/ EffectCleanup
  \/ \E l \in 1..MaxLoops : GetUpdatesReturns(l)
  \/ \E l \in 1..MaxLoops : GetUpdatesThrows(l)
  \/ \E l \in 1..MaxLoops, completes \in BOOLEAN : HandleUpdate(l, completes)
  \/ \E l \in 1..MaxLoops : WhileTest(l)
  \/ UpdateArrives

SpecPoll == Init /\ [][NextPoll]_vars

(* C29: while polling is on, at most one loop has not stopped *)
C29_AtMostOneLoop ==
  poller.isPolling =>
    Cardinality({l \in 1..Len(poller.loops) :
                   poller.loops[l].pc # "stopped"}) <= 1

(* the offset of each loop is 1 + the id of the last update whose handler
   completed in it, and those ids increase; the server has forgotten only
   updates whose handler completed in some loop *)
OffsetFollowsCompleted(p) ==
  /\ \A l \in 1..Len(p.loops) :
       LET loop == p.loops[l]
       IN  /\ loop.offset = IF loop.completed = <<>> THEN 0
                            ELSE loop.completed[Len(loop.completed)] + 1
           /\ \A k \in 1..(Len(loop.completed) - 1) :
                loop.completed[k] < loop.completed[k + 1]
  /\ \A id \in 1..p.confirmed :
       \E l \in 1..Len(p.loops), k \in 1..p.updates :
         k <= Len(p.loops[l].completed) /\ p.loops[l].completed[k] = id

(* C30: a loop handles updates in increasing order of update_id, its
   offset is 1 + the id of the last update whose handler completed, and
   no update is skipped: the server forgets an update only after its
   handler completed, and an update whose handler threw is not below the
   offset of the next poll *)
C30_OffsetAndOrder ==
  [][/\ OffsetFollowsCompleted(poller')
     /\ \A l \in 1..Len(poller.loops) :
          /\ poller'.loops[l].lastAttempt >= poller.loops[l].lastAttempt
          /\ poller'.loops[l].lastThrew
               => poller'.loops[l].lastAttempt >= poller'.loops[l].offset]_vars

(* a loop has handled update 1 again after its handler threw, and then
   update 2 *)
C30_Witness ==
  \E l \in 1..Len(poller.loops) :
    /\ poller.loops[l].retried
    /\ poller.loops[l].completed = <<1, 2>>
    /\ poller.loops[l].offset = 3

====
